---- MODULE Spec2Model ----
(***************************************************************************)
(* Model of ai_study_coach.py: the three-stage expert pipeline             *)
(* AIEducationTeam.get_ai_education and the three experts it sequences.    *)
(*                                                                         *)
(* A text is a sequence of tokens: every fixed piece of a Python f-string  *)
(* is one token, and a value substituted into the f-string contributes its *)
(* own tokens, so "contains verbatim" is contiguous sub-sequence.          *)
(***************************************************************************)
EXTENDS Integers, Sequences, FiniteSets, TLC

\* Bound: a new run is started only while the team's log list is shorter.
MaxLogs == 2

-----------------------------------------------------------------------------
\* Inputs

\* The five service types the experts dispatch on (explain, enhance, finalize),
\* the Korean literals of the source rendered in ASCII.
KnownServiceTypes ==
    {"AI concept understanding", "AI tool usage", "AI learning plan", "AI ethics and safety", "CS student spec guide"}

\* The service types a run is started with: a known type whose templates read
\* one key, a known type whose templates read two keys, and a string that is
\* not a known type.  (The other three known types select templates of these
\* same two shapes; the stored logs keep the service type, so every further
\* type multiplies the reachable log stores.)
ServiceTypes == {"AI concept understanding", "AI tool usage", "Unknown"}

\* The empty input_data mapping {}.
EmptyInput == [k \in {} |-> <<>>]

\* The input_data mapping main() builds for each service type.
UIInput(service_type) ==
    CASE service_type = "AI concept understanding" -> [k \in {"concept"} |-> <<"v_" \o k>>]
      [] service_type = "AI tool usage" -> [k \in {"tool_name", "purpose"} |-> <<"v_" \o k>>]
      [] service_type = "AI learning plan" -> [k \in {"current_level", "goals"} |-> <<"v_" \o k>>]
      [] service_type = "CS student spec guide" ->
            [k \in {"current_situation", "career_goals"} |-> <<"v_" \o k>>]
      [] service_type = "AI ethics and safety" -> [k \in {"area_of_interest"} |-> <<"v_" \o k>>]
      [] OTHER -> EmptyInput

\* The input_data mappings a run is started with.
InputDatas(service_type) == {EmptyInput, UIInput(service_type)}

\* Message carried by an exception of the model client (str(e)).
ModelMessages == {<<"quota exceeded">>}

\* Message carried by an exception of a Streamlit call (str(e)).
PipelineMessages == {<<"widget failed">>}

\* What self.model.generate_content(prompt) followed by response.text does:
\* a non-empty text, an empty text, None, or an exception with a message.
ModelBehaviours ==
    {[kind |-> "text", text |-> <<"X">>],
     [kind |-> "text", text |-> <<>>],
     [kind |-> "none", text |-> <<>>]}
    \cup {[kind |-> "raise", text |-> m] : m \in ModelMessages}

-----------------------------------------------------------------------------
\* Text helpers

\* Mutant of Get: the lookup has no default, a missing key formats as None.
Get_NoDefault(input_data, key) ==
    IF key \in DOMAIN input_data THEN input_data[key] ELSE <<"None">>

\* input_data.get(key, '')
Get(input_data, key) == IF key \in DOMAIN input_data THEN input_data[key] ELSE <<>>

\* The order in which str(dict) lists the keys (insertion order of main()).
KeyOrder ==
    <<"concept", "tool_name", "purpose", "current_level", "goals",
      "current_situation", "career_goals", "area_of_interest">>

RECURSIVE DictItems(_, _)
DictItems(input_data, i) ==
    IF i > Len(KeyOrder) THEN <<>>
    ELSE (IF KeyOrder[i] \in DOMAIN input_data
             THEN <<"'" \o KeyOrder[i] \o "': '">> \o input_data[KeyOrder[i]] \o <<"'">>
             ELSE <<>>)
         \o DictItems(input_data, i + 1)

\* str(input_data)
StrDict(input_data) == <<"{">> \o DictItems(input_data, 1) \o <<"}">>

\* needle in haystack (Python's substring test) on token sequences.
Contains(haystack, needle) ==
    \E i \in 1..(Len(haystack) - Len(needle) + 1) :
        SubSeq(haystack, i, i + Len(needle) - 1) = needle

-----------------------------------------------------------------------------
\* AIFoundationsExpert: prompt templates

_create_concept_prompt(input_data) ==
    <<"f1_concept_head">> \o Get(input_data, "concept") \o <<"f1_concept_items">>

_create_tool_basics_prompt(input_data) ==
    <<"f1_tool_head">> \o Get(input_data, "tool_name")
    \o <<"f1_tool_purpose">> \o Get(input_data, "purpose") \o <<"f1_tool_items">>

_create_learning_basics_prompt(input_data) ==
    <<"f1_learning_head">> \o Get(input_data, "current_level")
    \o <<"f1_learning_goals">> \o Get(input_data, "goals") \o <<"f1_learning_items">>

_create_ethics_basics_prompt(input_data) ==
    <<"f1_ethics_head">> \o Get(input_data, "area_of_interest") \o <<"f1_ethics_items">>

_create_cs_spec_basics_prompt(input_data) ==
    <<"f1_cs_head">> \o Get(input_data, "current_situation")
    \o <<"f1_cs_goals">> \o Get(input_data, "career_goals") \o <<"f1_cs_items">>

_create_general_foundations_prompt(input_data, service_type) ==
    <<"f1_general_head", service_type, "f1_general_request">>
    \o StrDict(input_data) \o <<"f1_general_items">>

\* Mutant of explain_prompt: the branch of the service type added last is
\* missing from the first expert's dispatch.
explain_prompt_NoCsBranch(service_type, input_data) ==
    LET prompt ==
          IF service_type = "AI concept understanding" THEN _create_concept_prompt(input_data)
          ELSE IF service_type = "AI tool usage" THEN _create_tool_basics_prompt(input_data)
          ELSE IF service_type = "AI learning plan" THEN _create_learning_basics_prompt(input_data)
          ELSE IF service_type = "AI ethics and safety" THEN _create_ethics_basics_prompt(input_data)
          ELSE _create_general_foundations_prompt(input_data, service_type)
    IN <<"f1_persona_name_and_intro">> \o prompt \o <<"f1_closing_instructions">>

\* AIFoundationsExpert.explain, lines 170-192: the composed prompt.
explain_prompt(service_type, input_data) ==
    LET prompt ==
          IF service_type = "AI concept understanding" THEN _create_concept_prompt(input_data)
          ELSE IF service_type = "AI tool usage" THEN _create_tool_basics_prompt(input_data)
          ELSE IF service_type = "AI learning plan" THEN _create_learning_basics_prompt(input_data)
          ELSE IF service_type = "AI ethics and safety" THEN _create_ethics_basics_prompt(input_data)
          ELSE IF service_type = "CS student spec guide"
                  THEN _create_cs_spec_basics_prompt(input_data)
          ELSE _create_general_foundations_prompt(input_data, service_type)
    IN <<"f1_persona_name_and_intro">> \o prompt \o <<"f1_closing_instructions">>

-----------------------------------------------------------------------------
\* PracticalAIExpert: prompt templates (previous_explanation is a parameter
\* of every template but no template reads it)

_create_concept_practical_prompt(previous_explanation, input_data) ==
    <<"f2_concept_items">> \o Get(input_data, "concept")

_create_tool_practical_prompt(previous_explanation, input_data) ==
    <<"f2_tool_items">> \o Get(input_data, "tool_name")
    \o <<"f2_tool_purpose">> \o Get(input_data, "purpose")

_create_learning_practical_prompt(previous_explanation, input_data) ==
    <<"f2_learning_items">> \o Get(input_data, "current_level")
    \o <<"f2_learning_goals">> \o Get(input_data, "goals")

_create_ethics_practical_prompt(previous_explanation, input_data) ==
    <<"f2_ethics_items">> \o Get(input_data, "area_of_interest")

_create_cs_spec_practical_prompt(previous_explanation, input_data) ==
    <<"f2_cs_head">> \o Get(input_data, "current_situation")
    \o <<"f2_cs_goals">> \o Get(input_data, "career_goals") \o <<"f2_cs_items">>

_create_general_practical_prompt(previous_explanation, input_data, service_type) ==
    <<"f2_general_head", service_type, "f2_general_request">>
    \o StrDict(input_data) \o <<"f2_general_items">>

\* Mutant of enhance_prompt: the previous explanation is not put in the prompt.
enhance_prompt_NoPrevious(previous_explanation, service_type, input_data) ==
    LET prompt ==
          IF service_type = "AI concept understanding"
             THEN _create_concept_practical_prompt(previous_explanation, input_data)
          ELSE IF service_type = "AI tool usage"
             THEN _create_tool_practical_prompt(previous_explanation, input_data)
          ELSE IF service_type = "AI learning plan"
             THEN _create_learning_practical_prompt(previous_explanation, input_data)
          ELSE IF service_type = "AI ethics and safety"
             THEN _create_ethics_practical_prompt(previous_explanation, input_data)
          ELSE IF service_type = "CS student spec guide"
             THEN _create_cs_spec_practical_prompt(previous_explanation, input_data)
          ELSE _create_general_practical_prompt(previous_explanation, input_data, service_type)
    IN <<"f2_persona_name_and_intro", "f2_begin_foundations_explanation">>
       \o <<"f2_end_explanation">> \o prompt \o <<"f2_closing_instructions">>

\* PracticalAIExpert.enhance, lines 354-381: the composed prompt.
enhance_prompt(previous_explanation, service_type, input_data) ==
    LET prompt ==
          IF service_type = "AI concept understanding"
             THEN _create_concept_practical_prompt(previous_explanation, input_data)
          ELSE IF service_type = "AI tool usage"
             THEN _create_tool_practical_prompt(previous_explanation, input_data)
          ELSE IF service_type = "AI learning plan"
             THEN _create_learning_practical_prompt(previous_explanation, input_data)
          ELSE IF service_type = "AI ethics and safety"
             THEN _create_ethics_practical_prompt(previous_explanation, input_data)
          ELSE IF service_type = "CS student spec guide"
             THEN _create_cs_spec_practical_prompt(previous_explanation, input_data)
          ELSE _create_general_practical_prompt(previous_explanation, input_data, service_type)
    IN <<"f2_persona_name_and_intro", "f2_begin_foundations_explanation">>
       \o previous_explanation
       \o <<"f2_end_explanation">> \o prompt \o <<"f2_closing_instructions">>

-----------------------------------------------------------------------------
\* LearningPathExpert: prompt templates

_create_concept_learning_prompt(previous_explanation, input_data) ==
    <<"f3_concept_items">> \o Get(input_data, "concept")

_create_tool_learning_prompt(previous_explanation, input_data) ==
    <<"f3_tool_items">> \o Get(input_data, "tool_name")
    \o <<"f3_tool_purpose">> \o Get(input_data, "purpose")

_create_comprehensive_learning_prompt(previous_explanation, input_data) ==
    <<"f3_learning_items">> \o Get(input_data, "current_level")
    \o <<"f3_learning_goals">> \o Get(input_data, "goals")

_create_ethics_learning_prompt(previous_explanation, input_data) ==
    <<"f3_ethics_items">> \o Get(input_data, "area_of_interest")

_create_cs_spec_learning_prompt(previous_explanation, input_data) ==
    <<"f3_cs_head">> \o Get(input_data, "current_situation")
    \o <<"f3_cs_goals">> \o Get(input_data, "career_goals") \o <<"f3_cs_items">>

_create_general_learning_prompt(previous_explanation, input_data, service_type) ==
    <<"f3_general_head", service_type, "f3_general_request">>
    \o StrDict(input_data) \o <<"f3_general_items">>

\* Mutant of finalize_prompt: the dispatch has no else branch of its own and an
\* unknown service type gets the template of the last known type.
finalize_prompt_NoGeneric(previous_explanation, service_type, input_data) ==
    LET prompt ==
          IF service_type = "AI concept understanding"
             THEN _create_concept_learning_prompt(previous_explanation, input_data)
          ELSE IF service_type = "AI tool usage"
             THEN _create_tool_learning_prompt(previous_explanation, input_data)
          ELSE IF service_type = "AI learning plan"
             THEN _create_comprehensive_learning_prompt(previous_explanation, input_data)
          ELSE IF service_type = "AI ethics and safety"
             THEN _create_ethics_learning_prompt(previous_explanation, input_data)
          ELSE _create_cs_spec_learning_prompt(previous_explanation, input_data)
    IN <<"f3_persona_name_and_intro", "f3_begin_previous_explanations">>
       \o previous_explanation
       \o <<"f3_end_explanation">> \o prompt \o <<"f3_closing_instructions">>

\* LearningPathExpert.finalize, lines 557-589: the composed prompt.
finalize_prompt(previous_explanation, service_type, input_data) ==
    LET prompt ==
          IF service_type = "AI concept understanding"
             THEN _create_concept_learning_prompt(previous_explanation, input_data)
          ELSE IF service_type = "AI tool usage"
             THEN _create_tool_learning_prompt(previous_explanation, input_data)
          ELSE IF service_type = "AI learning plan"
             THEN _create_comprehensive_learning_prompt(previous_explanation, input_data)
          ELSE IF service_type = "AI ethics and safety"
             THEN _create_ethics_learning_prompt(previous_explanation, input_data)
          ELSE IF service_type = "CS student spec guide"
             THEN _create_cs_spec_learning_prompt(previous_explanation, input_data)
          ELSE _create_general_learning_prompt(previous_explanation, input_data, service_type)
    IN <<"f3_persona_name_and_intro", "f3_begin_previous_explanations">>
       \o previous_explanation
       \o <<"f3_end_explanation">> \o prompt \o <<"f3_closing_instructions">>

-----------------------------------------------------------------------------
\* The experts' results: response.text if response.text else <fallback>, and
\* the except branch that turns the exception into the stage's text.

\* Mutant of explain_result: response.text is returned without the empty test.
explain_result_NoEmptyTest(behaviour) ==
    IF behaviour.kind = "raise" THEN <<"f1_error_occurred: ">> \o behaviour.text
    ELSE behaviour.text

\* AIFoundationsExpert.explain, lines 195-199.
explain_result(behaviour) ==
    IF behaviour.kind = "raise" THEN <<"f1_error_occurred: ">> \o behaviour.text
    ELSE IF behaviour.kind = "text" /\ behaviour.text # <<>> THEN behaviour.text
    ELSE <<"f1_cannot_generate_response_retry">>

\* PracticalAIExpert.enhance, lines 384-388.
enhance_result(behaviour) ==
    IF behaviour.kind = "raise" THEN <<"f2_error_occurred: ">> \o behaviour.text
    ELSE IF behaviour.kind = "text" /\ behaviour.text # <<>> THEN behaviour.text
    ELSE <<"f2_cannot_generate_practical_retry">>

\* Mutant of finalize_result: the except branch drops the exception's message.
finalize_result_NoMessage(behaviour) ==
    IF behaviour.kind = "raise" THEN <<"f3_error_occurred: ">>
    ELSE IF behaviour.kind = "text" /\ behaviour.text # <<>> THEN behaviour.text
    ELSE <<"f3_cannot_generate_learning_path_retry">>

\* LearningPathExpert.finalize, lines 592-596.
finalize_result(behaviour) ==
    IF behaviour.kind = "raise" THEN <<"f3_error_occurred: ">> \o behaviour.text
    ELSE IF behaviour.kind = "text" /\ behaviour.text # <<>> THEN behaviour.text
    ELSE <<"f3_cannot_generate_learning_path_retry">>

\* Mutant of generate_content: a failed invocation is tried a second time.
generate_content_Retry(model_calls, expert, prompt, behaviour) ==
    LET call == [expert |-> expert, prompt |-> prompt,
                 kind |-> behaviour.kind, text |-> behaviour.text]
    IN IF behaviour.kind = "raise" THEN model_calls \o <<call, call>>
       ELSE Append(model_calls, call)

\* self.model.generate_content(prompt): the model client sees one invocation.
generate_content(model_calls, expert, prompt, behaviour) ==
    Append(model_calls, [expert |-> expert, prompt |-> prompt,
                         kind |-> behaviour.kind, text |-> behaviour.text])

-----------------------------------------------------------------------------
\* AIEducationTeam

\* The string get_ai_education returns from its except branch (line 145).
Apology == <<"sorry_an_error_occurred_please_retry">>

\* The workflow_log dictionary of lines 86-92 (timestamps left out).
NewWorkflowLog(s) ==
    [service_type |-> s,
     experts_involved |-> <<"AIFoundationsExpert", "PracticalAIExpert", "LearningPathExpert">>,
     steps |-> <<>>,
     status |-> "in_progress",
     has_error |-> FALSE,
     error |-> <<>>]

\* Mutant of AppendStep: every record carries the first stage's action tag.
AppendStep_SameTag(log, expert, action) ==
    [log EXCEPT !.steps = Append(@, [expert |-> expert, action |-> "initial_explanation"])]

\* workflow_log["steps"].append({...}), lines 102-106, 114-118, 126-130.
AppendStep(log, expert, action) ==
    [log EXCEPT !.steps = Append(@, [expert |-> expert, action |-> action])]

\* Mutant of MarkCompleted: the status assignment of line 134 is missing.
MarkCompleted_Forgotten(log) == log

\* workflow_log["status"] = "completed", line 134.
MarkCompleted(log) == [log EXCEPT !.status = "completed"]

\* Mutant of MarkError: the except branch stores the log as completed.
MarkError_AsCompleted(log, message) ==
    [log EXCEPT !.status = "completed", !.has_error = TRUE, !.error = message]

\* Mutant of MarkError: the except branch does not record the message.
MarkError_NoMessage(log, message) == [log EXCEPT !.status = "error"]

\* workflow_log["status"] = "error"; workflow_log["error"] = str(e), lines 142-143.
MarkError(log, message) ==
    [log EXCEPT !.status = "error", !.has_error = TRUE, !.error = message]

\* caught.site is the position at which the caught exception was raised.
NoException == [raised |-> FALSE, text |-> <<>>, site |-> "none"]
NoReturn == [kind |-> "none", text |-> <<>>]

\* No prompt has been built.
NoBuild == [stage |-> 0, service_type |-> "", input_data |-> EmptyInput,
            previous_explanation |-> <<>>, prompt |-> <<>>]

\* The Streamlit sessions (browser tabs) of the process.
Sessions == {1, 2}

\* st.session_state.current_team = None (line 807).  A team holds its api_key,
\* its workflow_logs and, in client, the key its one GenerativeModel sends
\* with a call ("" while the model has not taken a key yet).
NoTeam == [exists |-> FALSE, api_key |-> "", workflow_logs |-> <<>>, client |-> ""]

\* What the last script run of the process did:
\*   session           the session whose script ran (0: none yet)
\*   constructed       the script run called AIEducationTeam(api_key)
\*   construct_failed  and that call raised
\*   blank_field       the generate button was clicked with a required field
\*                     that is empty after strip()
\* and, per session, over its script runs since its last log reset:
\*   runs, completed   calls of get_ai_education, and how many of them ended
\*                     with status 'completed'
NoHistory == [session |-> 0, constructed |-> FALSE,
              construct_failed |-> FALSE, blank_field |-> FALSE,
              runs |-> [u \in Sessions |-> 0], completed |-> [u \in Sessions |-> 0]]

VARIABLES
    pc,                              \* position inside get_ai_education
    service_type,                    \* argument of the current call
    input_data,                      \* argument of the current call
    workflow_log,                    \* local workflow_log of the current call
    initial_explanation,             \* local, result of stage 1
    practical_enhanced_explanation,  \* local, result of stage 2
    final_guidance,                  \* local, result of stage 3
    caught,                          \* the exception e caught at line 140
    outcome,                         \* how the call ended: value or exception
    model_calls,                     \* invocations the model client saw in this call
    workflow_logs,                   \* self.workflow_logs
    built,                           \* the prompt built last, with its arguments
    genai_api_key,                   \* the key of the last genai.configure (process-wide)
    api_key,                         \* per session: value of the API key text input
    session_state,                   \* per session: st.session_state
    ui_history,                      \* what the last script run did, and run counts
    ui_runs                          \* number of get_ai_education calls made by main()

\* The state of one call of get_ai_education on one team.
pipeline_vars == <<pc, service_type, input_data, workflow_log, initial_explanation,
                   practical_enhanced_explanation, final_guidance, caught, outcome,
                   model_calls, workflow_logs>>

\* The state of the Streamlit sessions running main().
ui_vars == <<genai_api_key, api_key, session_state, ui_history, ui_runs>>

vars == <<pc, service_type, input_data, workflow_log, initial_explanation,
          practical_enhanced_explanation, final_guidance, caught, outcome,
          model_calls, workflow_logs, built, genai_api_key, api_key, session_state,
          ui_history, ui_runs>>

locals == <<initial_explanation, practical_enhanced_explanation, final_guidance>>

\* AIEducationTeam.__init__ (line 73): no call made yet.
Init ==
    /\ pc = "idle"
    /\ service_type = "Unknown"
    /\ input_data = EmptyInput
    /\ workflow_log = NewWorkflowLog("Unknown")
    /\ initial_explanation = <<>>
    /\ practical_enhanced_explanation = <<>>
    /\ final_guidance = <<>>
    /\ caught = NoException
    /\ outcome = NoReturn
    /\ model_calls = <<>>
    /\ workflow_logs = <<>>
    /\ built = NoBuild
    /\ genai_api_key = ""
    /\ api_key = [u \in Sessions |-> ""]
    /\ session_state = [u \in Sessions |-> [workflow_logs |-> <<>>, current_team |-> NoTeam]]
    /\ ui_history = NoHistory
    /\ ui_runs = 0

\* get_ai_education is entered (lines 75-92): the caller passes arguments and
\* the log is created.
Call ==
    /\ pc \in {"idle", "returned", "raised"}
    /\ Len(workflow_logs) < MaxLogs
    /\ \E s \in ServiceTypes : \E d \in InputDatas(s) :
          /\ service_type' = s
          /\ input_data' = d
          /\ workflow_log' = NewWorkflowLog(s)
    /\ initial_explanation' = <<>>
    /\ practical_enhanced_explanation' = <<>>
    /\ final_guidance' = <<>>
    /\ caught' = NoException
    /\ outcome' = NoReturn
    /\ model_calls' = <<>>
    /\ pc' = "present0"
    /\ UNCHANGED workflow_logs
    /\ UNCHANGED <<built, ui_vars>>

\* Mutant of Presentation: the exception of a Streamlit call is recorded but
\* the pipeline goes on with the next stage.
Presentation_GoesOn(from, to) ==
    /\ pc = from
    /\ \/ pc' = to /\ UNCHANGED caught
       \/ \E m \in PipelineMessages :
             /\ caught' = [raised |-> TRUE, text |-> m, site |-> from]
             /\ pc' = IF to = "complete" THEN "except" ELSE to
    /\ UNCHANGED <<service_type, input_data, workflow_log, locals, outcome,
                   model_calls, workflow_logs>>
    /\ UNCHANGED <<built, ui_vars>>

\* Streamlit calls between the stages: they return, or one raises and control
\* goes to the except branch of get_ai_education.
Presentation(from, to) ==
    /\ pc = from
    /\ \/ pc' = to /\ UNCHANGED caught
       \/ \E m \in PipelineMessages :
             /\ caught' = [raised |-> TRUE, text |-> m, site |-> from]
             /\ pc' = "except"
    /\ UNCHANGED <<service_type, input_data, workflow_log, locals, outcome,
                   model_calls, workflow_logs>>
    /\ UNCHANGED <<built, ui_vars>>

\* Lines 95-100: st.container, st.markdown, st.spinner.
PresentStart == Presentation("present0", "stage1")

\* Line 101: foundations_expert.explain(service_type, input_data).
Stage1 ==
    /\ pc = "stage1"
    /\ \E b \in ModelBehaviours :
          /\ model_calls' = generate_content(model_calls, "AIFoundationsExpert",
                                explain_prompt(service_type, input_data), b)
          /\ initial_explanation' = explain_result(b)
    /\ pc' = "record1"
    /\ UNCHANGED <<service_type, input_data, workflow_log, practical_enhanced_explanation,
                   final_guidance, caught, outcome, workflow_logs>>
    /\ UNCHANGED <<built, ui_vars>>

\* Lines 102-106.
Record1 ==
    /\ pc = "record1"
    /\ workflow_log' = AppendStep(workflow_log, "AIFoundationsExpert", "initial_explanation")
    /\ pc' = "present1"
    /\ UNCHANGED <<service_type, input_data, locals, caught, outcome, model_calls,
                   workflow_logs>>
    /\ UNCHANGED <<built, ui_vars>>

\* Lines 107-112: st.success, time.sleep, st.markdown, st.spinner.
PresentAfter1 == Presentation("present1", "stage2")

\* Line 113: practical_expert.enhance(initial_explanation, service_type, input_data).
Stage2 ==
    /\ pc = "stage2"
    /\ \E b \in ModelBehaviours :
          /\ model_calls' = generate_content(model_calls, "PracticalAIExpert",
                                enhance_prompt(initial_explanation, service_type, input_data), b)
          /\ practical_enhanced_explanation' = enhance_result(b)
    /\ pc' = "record2"
    /\ UNCHANGED <<service_type, input_data, workflow_log, initial_explanation,
                   final_guidance, caught, outcome, workflow_logs>>
    /\ UNCHANGED <<built, ui_vars>>

\* Lines 114-118.
Record2 ==
    /\ pc = "record2"
    /\ workflow_log' = AppendStep(workflow_log, "PracticalAIExpert", "practical_enhancement")
    /\ pc' = "present2"
    /\ UNCHANGED <<service_type, input_data, locals, caught, outcome, model_calls,
                   workflow_logs>>
    /\ UNCHANGED <<built, ui_vars>>

\* Lines 119-124: st.success, time.sleep, st.markdown, st.spinner.
PresentAfter2 == Presentation("present2", "stage3")

\* Line 125: learning_expert.finalize(practical_enhanced_explanation, ...).
Stage3 ==
    /\ pc = "stage3"
    /\ \E b \in ModelBehaviours :
          /\ model_calls' = generate_content(model_calls, "LearningPathExpert",
                                finalize_prompt(practical_enhanced_explanation,
                                                service_type, input_data), b)
          /\ final_guidance' = finalize_result(b)
    /\ pc' = "record3"
    /\ UNCHANGED <<service_type, input_data, workflow_log, initial_explanation,
                   practical_enhanced_explanation, caught, outcome, workflow_logs>>
    /\ UNCHANGED <<built, ui_vars>>

\* Lines 126-130.
Record3 ==
    /\ pc = "record3"
    /\ workflow_log' = AppendStep(workflow_log, "LearningPathExpert", "finalization")
    /\ pc' = "present3"
    /\ UNCHANGED <<service_type, input_data, locals, caught, outcome, model_calls,
                   workflow_logs>>
    /\ UNCHANGED <<built, ui_vars>>

\* Line 131: st.success, and leaving the spinner and the container.
PresentAfter3 == Presentation("present3", "complete")

\* Lines 134-138: the normal return.
Complete ==
    /\ pc = "complete"
    /\ workflow_log' = MarkCompleted(workflow_log)
    /\ workflow_logs' = Append(workflow_logs, workflow_log')
    /\ outcome' = [kind |-> "value", text |-> final_guidance]
    /\ pc' = "returned"
    /\ UNCHANGED <<service_type, input_data, locals, caught, model_calls>>
    /\ UNCHANGED <<built, ui_vars>>

\* Lines 140-145: the except branch.  st.error (line 141) is itself a call
\* that returns or raises; when it raises, nothing after it runs and the new
\* exception leaves get_ai_education.
Except ==
    /\ pc = "except"
    /\ \/ /\ workflow_log' = MarkError(workflow_log, caught.text)
          /\ workflow_logs' = Append(workflow_logs, workflow_log')
          /\ outcome' = [kind |-> "value", text |-> Apology]
          /\ pc' = "returned"
       \/ \E m \in PipelineMessages :
             /\ outcome' = [kind |-> "exception", text |-> m]
             /\ pc' = "raised"
             /\ UNCHANGED <<workflow_log, workflow_logs>>
    /\ UNCHANGED <<service_type, input_data, locals, caught, model_calls>>
    /\ UNCHANGED <<built, ui_vars>>

Next ==
    \/ Call
    \/ PresentStart
    \/ Stage1
    \/ Record1
    \/ PresentAfter1
    \/ Stage2
    \/ Record2
    \/ PresentAfter2
    \/ Stage3
    \/ Record3
    \/ PresentAfter3
    \/ Complete
    \/ Except

Spec == Init /\ [][Next]_vars

-----------------------------------------------------------------------------
\* Shapes the state keeps

TypeOK ==
    /\ pc \in {"idle", "present0", "stage1", "record1", "present1", "stage2", "record2",
               "present2", "stage3", "record3", "present3", "complete", "except",
               "returned", "raised"}
    /\ service_type \in ServiceTypes
    /\ workflow_log.status \in {"in_progress", "completed", "error"}
    /\ Len(workflow_logs) <= MaxLogs

-----------------------------------------------------------------------------
\* Vocabulary of the properties

\* The call has ended, by returning a value or by raising.
RunEnded == pc \in {"returned", "raised"}

\* A pipeline-level exception was raised in the current call.
Aborted == caught.raised

\* The text the k-th expert returned to get_ai_education.
StageText(k) ==
    CASE k = 1 -> initial_explanation
      [] k = 2 -> practical_enhanced_explanation
      [] k = 3 -> final_guidance

\* The model client returned, with an empty or a null text.
EmptyResponse(call) == call.kind \in {"text", "none"} /\ call.text = <<>>

\* The model client returned a non-empty text.
TextResponse(call) == call.kind = "text" /\ call.text # <<>>

ExpertOrder == <<"AIFoundationsExpert", "PracticalAIExpert", "LearningPathExpert">>

ExpectedSteps ==
    <<[expert |-> "AIFoundationsExpert", action |-> "initial_explanation"],
      [expert |-> "PracticalAIExpert", action |-> "practical_enhancement"],
      [expert |-> "LearningPathExpert", action |-> "finalization"]>>

StoredLogs == {workflow_logs[i] : i \in DOMAIN workflow_logs}

-----------------------------------------------------------------------------
\* C1 (as claimed): get_ai_education never lets an exception cross its
\* boundary; every call ends by returning a string.
C1_NeverRaises == outcome.kind # "exception"

-----------------------------------------------------------------------------
\* C2 (as claimed): every log in the log store has at most 3 steps and has
\* status 'completed' if and only if it has exactly 3 steps.
C2_CompletedIffThreeSteps ==
    \A log \in StoredLogs :
        /\ Len(log.steps) <= 3
        /\ log.status = "completed" <=> Len(log.steps) = 3

\* C2 (amended): the running log and every stored log have at most 3 steps and
\* status 'completed' implies exactly 3 steps; a stored log with fewer than 3
\* steps has status 'error', and a stored log with 3 steps is 'completed' or
\* 'error'; the running log has 3 steps and status 'in_progress' only between
\* the third append and the end of the call.
C2_CompletedImpliesThreeSteps ==
    /\ \A log \in StoredLogs \cup {workflow_log} :
          /\ Len(log.steps) <= 3
          /\ log.status = "completed" => Len(log.steps) = 3
    /\ \A log \in StoredLogs :
          /\ Len(log.steps) < 3 => log.status = "error"
          /\ Len(log.steps) = 3 => log.status \in {"completed", "error"}
    /\ (Len(workflow_log.steps) = 3 /\ workflow_log.status = "in_progress")
          => pc \in {"present3", "complete", "except", "raised"}

\* C2 witness: the store holds a completed log and an error log, both with 3 steps.
C2_Witness ==
    /\ \E log \in StoredLogs : log.status = "completed" /\ Len(log.steps) = 3
    /\ \E log \in StoredLogs : log.status = "error" /\ Len(log.steps) = 3

-----------------------------------------------------------------------------
\* C3 (as claimed): a stored log has status 'error' if and only if it has
\* fewer than 3 steps and its error message is set; a completed log carries no
\* error message; an error log never has 3 steps.
C3_ErrorIffFewerThanThreeSteps ==
    \A log \in StoredLogs :
        /\ log.status = "error" <=> (Len(log.steps) < 3 /\ log.has_error)
        /\ log.status = "completed" => ~log.has_error
        /\ log.status = "error" => Len(log.steps) # 3

\* C3 (amended): a stored log has status 'error' if and only if its error
\* message is set, and every stored log with fewer than 3 steps is such a log;
\* a completed log carries no error message; the error log of the call that
\* just returned carries the caught exception's message and has 3 steps
\* exactly when the exception was raised after the third record was appended.
C3_ErrorIffMessageSet ==
    /\ \A log \in StoredLogs :
          /\ log.status = "error" <=> log.has_error
          /\ Len(log.steps) < 3 => (log.status = "error" /\ log.has_error)
          /\ log.status = "completed" => ~log.has_error
          /\ Len(log.steps) <= 3
    /\ (pc = "returned" /\ Aborted) =>
          /\ workflow_log.status = "error"
          /\ workflow_log.error = caught.text
          /\ Len(workflow_log.steps) = 3 <=> caught.site = "present3"

\* C3 witness: the call returned after an exception raised behind the third
\* record, and its error log is in the store.
C3_Witness ==
    /\ pc = "returned"
    /\ Aborted
    /\ caught.site = "present3"
    /\ workflow_log \in StoredLogs

-----------------------------------------------------------------------------
-----------------------------------------------------------------------------
\* C5: the prompt stage 2 sends to the model client contains the text stage 1
\* returned, and the prompt stage 3 sends contains the text stage 2 returned,
\* verbatim, whether that text is model output or a fallback string.
C5_StageThreading ==
    \A k \in DOMAIN model_calls :
        /\ model_calls[k].expert = "PracticalAIExpert" =>
              /\ initial_explanation # <<>>
              /\ Contains(model_calls[k].prompt, initial_explanation)
        /\ model_calls[k].expert = "LearningPathExpert" =>
              /\ practical_enhanced_explanation # <<>>
              /\ Contains(model_calls[k].prompt, practical_enhanced_explanation)

\* C5 witness: stage 3 was invoked after stage 1 returned a fallback string and
\* stage 2 returned model output.
C5_Witness ==
    /\ Len(model_calls) = 3
    /\ model_calls[1].kind = "raise"
    /\ TextResponse(model_calls[2])
    /\ model_calls[3].expert = "LearningPathExpert"

-----------------------------------------------------------------------------
\* C6: on the normal path the returned value is stage 3's result: when the
\* model client returns the non-empty text X for every call, the final text is
\* X, the log has 3 steps and status 'completed'.
C6_NormalPathReturnsStage3 ==
    /\ (pc = "returned" /\ ~Aborted) =>
          /\ outcome = [kind |-> "value", text |-> final_guidance]
          /\ Len(model_calls) = 3
    /\ (pc = "returned" /\ ~Aborted
           /\ \A k \in DOMAIN model_calls : TextResponse(model_calls[k])) =>
          /\ outcome.text = model_calls[3].text
          /\ \A k \in DOMAIN model_calls : outcome.text = model_calls[k].text
          /\ Len(workflow_log.steps) = 3
          /\ workflow_log.status = "completed"
          /\ workflow_logs[Len(workflow_logs)] = workflow_log

\* C6 witness: the call returned on the normal path with model text in all stages.
C6_Witness ==
    /\ pc = "returned"
    /\ ~Aborted
    /\ Len(model_calls) = 3
    /\ \A k \in DOMAIN model_calls : TextResponse(model_calls[k])

-----------------------------------------------------------------------------
-----------------------------------------------------------------------------
\* C8: no stage is skipped, reordered or retried: the model client's
\* invocations in a call are, in order, a prefix of Foundations, Practical,
\* LearningPath; the invocation of stage k+1 happens only when stage k has
\* returned its result; a call that is not aborted by a pipeline-level
\* exception makes exactly 3 invocations.
C8_ThreeCallsInOrder ==
    /\ Len(model_calls) <= 3
    /\ \A k \in DOMAIN model_calls : model_calls[k].expert = ExpertOrder[k]
    /\ \A k \in DOMAIN model_calls : \A j \in 1..k : StageText(j) # <<>>
    /\ \A k \in 1..3 : k > Len(model_calls) => StageText(k) = <<>>
    /\ (RunEnded /\ ~Aborted) => Len(model_calls) = 3

\* C8 witness: a call that was not aborted returned after a failed and an
\* empty response.
C8_Witness ==
    /\ pc = "returned"
    /\ ~Aborted
    /\ model_calls[1].kind = "raise"
    /\ EmptyResponse(model_calls[2])

-----------------------------------------------------------------------------
\* C9: the steps list is always a prefix of [(AIFoundationsExpert,
\* initial_explanation), (PracticalAIExpert, practical_enhancement),
\* (LearningPathExpert, finalization)]; the record of stage k is appended
\* after stage k has returned and before stage k+1 is invoked.
C9_StepsPrefixInOrder ==
    /\ [](/\ Len(workflow_log.steps) <= 3
          /\ workflow_log.steps = SubSeq(ExpectedSteps, 1, Len(workflow_log.steps)))
    /\ [][/\ Len(workflow_log'.steps) > Len(workflow_log.steps) =>
                /\ Len(workflow_log'.steps) = Len(workflow_log.steps) + 1
                /\ Len(model_calls) = Len(workflow_log'.steps)
                /\ model_calls' = model_calls
                /\ StageText(Len(model_calls)) # <<>>
          /\ Len(model_calls') > Len(model_calls) =>
                /\ Len(workflow_log.steps) = Len(model_calls)
                /\ workflow_log' = workflow_log]_vars

\* C9 witness: all 3 records are in the running log.
C9_Witness ==
    /\ pc = "present3"
    /\ Len(workflow_log.steps) = 3

-----------------------------------------------------------------------------
\* C10 (as claimed): when a pipeline-level exception is raised, the call marks
\* the log 'error', records the exception's message, appends the log to the
\* store and returns the fixed apology string, which does not contain the
\* exception's message.
C10_PipelineExceptionHandled ==
    (RunEnded /\ Aborted) =>
        /\ outcome = [kind |-> "value", text |-> Apology]
        /\ ~Contains(outcome.text, caught.text)
        /\ workflow_log.status = "error"
        /\ workflow_log.has_error
        /\ workflow_log.error = caught.text
        /\ workflow_logs # <<>>
        /\ workflow_logs[Len(workflow_logs)] = workflow_log

-----------------------------------------------------------------------------
\* C11 (as claimed): every call of get_ai_education appends exactly one RunLog
\* to the log store before it ends, that log's status is then 'completed' or
\* 'error', and the call leaves every entry already in the store unchanged
\* and in place.
C11_EveryCallAppendsOneLog ==
    /\ [](RunEnded =>
             /\ workflow_logs # <<>>
             /\ workflow_logs[Len(workflow_logs)] = workflow_log
             /\ workflow_log.status \in {"completed", "error"})
    /\ [][/\ Len(workflow_logs') \in {Len(workflow_logs), Len(workflow_logs) + 1}
          /\ \A i \in DOMAIN workflow_logs : workflow_logs'[i] = workflow_logs[i]
          /\ Len(workflow_logs') > Len(workflow_logs) => pc' = "returned"]_vars

-----------------------------------------------------------------------------
-----------------------------------------------------------------------------
\* C14 (as claimed): every call of get_ai_education yields a final text
\* together with that run's RunLog, and the final text is never empty: it is
\* stage 3's model text, stage 3's fallback text, or the fixed apology string.
C14_FinalTextNeverEmpty ==
    RunEnded =>
        /\ outcome.kind = "value"
        /\ outcome.text # <<>>
        /\ \/ outcome.text = Apology
           \/ /\ Len(model_calls) = 3
              /\ \/ TextResponse(model_calls[3]) /\ outcome.text = model_calls[3].text
                 \/ outcome.text = <<"f3_cannot_generate_learning_path_retry">>
                 \/ outcome.text = <<"f3_error_occurred: ">> \o model_calls[3].text
        /\ workflow_logs # <<>>
        /\ workflow_logs[Len(workflow_logs)] = workflow_log

-----------------------------------------------------------------------------
\* The number of stage records appended before the position `site`.
RecordsBefore(site) ==
    CASE site = "present0" -> 0
      [] site = "present1" -> 1
      [] site = "present2" -> 2
      [] site = "present3" -> 3
      [] OTHER -> 0

\* C19: when a pipeline-level exception is raised after k stage records have
\* been appended, the run is aborted: from then on no stage is invoked and
\* no model call is made in that run (the model client has seen exactly the
\* k invocations made before), the log keeps exactly those k records, and
\* the log the call stores has exactly the k records, in order.
C19_AbortStopsPipeline ==
    /\ [](Aborted =>
             /\ caught.site \in {"present0", "present1", "present2", "present3"}
             /\ pc \in {"except", "returned", "raised"}
             /\ Len(model_calls) = RecordsBefore(caught.site)
             /\ workflow_log.steps = SubSeq(ExpectedSteps, 1, RecordsBefore(caught.site))
             /\ \A k \in 1..3 : k > RecordsBefore(caught.site) => StageText(k) = <<>>)
    /\ []((pc = "returned" /\ Aborted) =>
             workflow_logs[Len(workflow_logs)].steps
                = SubSeq(ExpectedSteps, 1, RecordsBefore(caught.site)))
    /\ [][(Aborted /\ Aborted') =>
             /\ model_calls' = model_calls
             /\ workflow_log'.steps = workflow_log.steps]_vars

\* C19 witness: the call returned after an exception raised behind the second
\* record, and the stored log has 2 records.
C19_Witness ==
    /\ pc = "returned"
    /\ Aborted
    /\ caught.site = "present2"
    /\ Len(workflow_logs[Len(workflow_logs)].steps) = 2

-----------------------------------------------------------------------------
\* Prompt building on its own: the three experts' prompt construction applied
\* once to every service type, every input_data over the keys the templates
\* read, and a model text or a fallback text as previous explanation.

\* The keys read by some template.
TemplateKeys ==
    {"concept", "tool_name", "purpose", "current_level", "goals",
     "current_situation", "career_goals", "area_of_interest"}

\* Service types prompts are built for: the five known ones, a string that is
\* none of them, and the empty string.
PromptServiceTypes == KnownServiceTypes \cup {"Unknown", ""}

\* Every mapping that has a value for some of the template keys.
PromptInputDatas ==
    {[k \in K |-> <<"value of", k>>] : K \in SUBSET TemplateKeys}

\* Texts handed over as previous explanation.
PreviousExplanations == {<<"X">>, <<"f1_error_occurred: ", "quota exceeded">>}

BuildExplain ==
    /\ pc = "idle"
    /\ built = NoBuild
    /\ \E s \in PromptServiceTypes : \E d \in PromptInputDatas :
          built' = [stage |-> 1, service_type |-> s, input_data |-> d,
                    previous_explanation |-> <<>>,
                    prompt |-> explain_prompt(s, d)]
    /\ UNCHANGED <<pipeline_vars, ui_vars>>

BuildEnhance ==
    /\ pc = "idle"
    /\ built = NoBuild
    /\ \E s \in PromptServiceTypes : \E d \in PromptInputDatas :
       \E prev \in PreviousExplanations :
          built' = [stage |-> 2, service_type |-> s, input_data |-> d,
                    previous_explanation |-> prev,
                    prompt |-> enhance_prompt(prev, s, d)]
    /\ UNCHANGED <<pipeline_vars, ui_vars>>

BuildFinalize ==
    /\ pc = "idle"
    /\ built = NoBuild
    /\ \E s \in PromptServiceTypes : \E d \in PromptInputDatas :
       \E prev \in PreviousExplanations :
          built' = [stage |-> 3, service_type |-> s, input_data |-> d,
                    previous_explanation |-> prev,
                    prompt |-> finalize_prompt(prev, s, d)]
    /\ UNCHANGED <<pipeline_vars, ui_vars>>

NextPrompts ==
    \/ BuildExplain
    \/ BuildEnhance
    \/ BuildFinalize

SpecPrompts == Init /\ [][NextPrompts]_vars

\* The prompt of the given stage, written out for a known service type from
\* the two values its template substitutes.
KnownPrompt(stage, s, first, second, previous) ==
    LET body ==
          CASE s = "AI concept understanding" ->
                 (CASE stage = 1 -> <<"f1_concept_head">> \o first \o <<"f1_concept_items">>
                    [] stage = 2 -> <<"f2_concept_items">> \o first
                    [] stage = 3 -> <<"f3_concept_items">> \o first)
            [] s = "AI tool usage" ->
                 (CASE stage = 1 -> <<"f1_tool_head">> \o first \o <<"f1_tool_purpose">>
                                    \o second \o <<"f1_tool_items">>
                    [] stage = 2 -> <<"f2_tool_items">> \o first \o <<"f2_tool_purpose">> \o second
                    [] stage = 3 -> <<"f3_tool_items">> \o first \o <<"f3_tool_purpose">> \o second)
            [] s = "AI learning plan" ->
                 (CASE stage = 1 -> <<"f1_learning_head">> \o first \o <<"f1_learning_goals">>
                                    \o second \o <<"f1_learning_items">>
                    [] stage = 2 -> <<"f2_learning_items">> \o first
                                    \o <<"f2_learning_goals">> \o second
                    [] stage = 3 -> <<"f3_learning_items">> \o first
                                    \o <<"f3_learning_goals">> \o second)
            [] s = "AI ethics and safety" ->
                 (CASE stage = 1 -> <<"f1_ethics_head">> \o first \o <<"f1_ethics_items">>
                    [] stage = 2 -> <<"f2_ethics_items">> \o first
                    [] stage = 3 -> <<"f3_ethics_items">> \o first)
            [] s = "CS student spec guide" ->
                 (CASE stage = 1 -> <<"f1_cs_head">> \o first \o <<"f1_cs_goals">>
                                    \o second \o <<"f1_cs_items">>
                    [] stage = 2 -> <<"f2_cs_head">> \o first \o <<"f2_cs_goals">>
                                    \o second \o <<"f2_cs_items">>
                    [] stage = 3 -> <<"f3_cs_head">> \o first \o <<"f3_cs_goals">>
                                    \o second \o <<"f3_cs_items">>)
    IN CASE stage = 1 -> <<"f1_persona_name_and_intro">> \o body \o <<"f1_closing_instructions">>
         [] stage = 2 ->
              <<"f2_persona_name_and_intro", "f2_begin_foundations_explanation">> \o previous
              \o <<"f2_end_explanation">> \o body \o <<"f2_closing_instructions">>
         [] stage = 3 ->
              <<"f3_persona_name_and_intro", "f3_begin_previous_explanations">> \o previous
              \o <<"f3_end_explanation">> \o body \o <<"f3_closing_instructions">>

\* The keys main() puts in input_data for a service type, in the order the
\* templates of that type substitute them (lines 1007, 1063, 1124, 1186, 1234).
UIKeys(s) ==
    CASE s = "AI concept understanding" -> <<"concept">>
      [] s = "AI tool usage" -> <<"tool_name", "purpose">>
      [] s = "AI learning plan" -> <<"current_level", "goals">>
      [] s = "CS student spec guide" -> <<"current_situation", "career_goals">>
      [] s = "AI ethics and safety" -> <<"area_of_interest">>
      [] OTHER -> <<>>

\* The value of the i-th key, the empty string when the key or i is missing.
ValueOrEmpty(d, keys, i) ==
    IF i <= Len(keys) /\ keys[i] \in DOMAIN d THEN d[keys[i]] ELSE <<>>

\* The first token of the Generic template of a stage.
GenericHead(stage) ==
    CASE stage = 1 -> "f1_general_head"
      [] stage = 2 -> "f2_general_head"
      [] stage = 3 -> "f3_general_head"

-----------------------------------------------------------------------------
\* C13: prompt building is total: for every stage, every service type and
\* every input_data, including mappings that lack keys the selected template
\* reads, the prompt is built, it is not empty, and a missing key is
\* substituted as the empty string: the prompt of a known service type is its
\* template with each key's value, or nothing, at the key's place.
C13_PromptBuildingTotal ==
    built.stage # 0 =>
        /\ built.prompt # <<>>
        /\ Len(built.prompt) >= 3
        /\ ~Contains(built.prompt, <<"None">>)
        /\ built.service_type \in KnownServiceTypes =>
              built.prompt =
                 KnownPrompt(built.stage, built.service_type,
                             ValueOrEmpty(built.input_data, UIKeys(built.service_type), 1),
                             ValueOrEmpty(built.input_data, UIKeys(built.service_type), 2),
                             built.previous_explanation)

\* C13 witness: the third expert's prompt for a two-key service type was built
\* from the empty input_data.
C13_Witness ==
    /\ built.stage = 3
    /\ built.service_type = "CS student spec guide"
    /\ built.input_data = EmptyInput

-----------------------------------------------------------------------------
\* C20: template dispatch is the same in the three stages: a stage selects
\* its Generic template exactly for the service types that are not among the
\* five the UI submits; for each of those five it selects that service's own
\* template, and the prompt shows a value of input_data exactly for the keys
\* the UI supplies for that service.
C20_DispatchConsistent ==
    built.stage # 0 =>
        /\ Contains(built.prompt, <<GenericHead(built.stage), built.service_type>>)
              <=> built.service_type \notin KnownServiceTypes
        /\ \A other \in {1, 2, 3} : ~Contains(built.prompt, <<GenericHead(other)>>)
              \/ (other = built.stage /\ built.service_type \notin KnownServiceTypes)
        /\ built.service_type \in KnownServiceTypes =>
              /\ built.prompt =
                    KnownPrompt(built.stage, built.service_type,
                                ValueOrEmpty(built.input_data, UIKeys(built.service_type), 1),
                                ValueOrEmpty(built.input_data, UIKeys(built.service_type), 2),
                                built.previous_explanation)
              /\ \A k \in DOMAIN built.input_data :
                    Contains(built.prompt, built.input_data[k])
                       <=> k \in DOMAIN UIInput(built.service_type)

\* C20 witness: a prompt was built for the service type the UI lists fourth,
\* from an input_data holding exactly the keys the UI supplies for it.
C20_Witness ==
    /\ built.stage = 2
    /\ built.service_type = "CS student spec guide"
    /\ DOMAIN built.input_data = {"current_situation", "career_goals"}

-----------------------------------------------------------------------------
\* main(): the Streamlit sessions of one process.  Every action is one script
\* run of main() in one session, from the first line to st.stop(), to the end
\* of the script or to the exception that ends it.

\* Bound on the calls of get_ai_education made by all sessions together.
MaxUIRuns == 2

\* The non-empty API keys a user types, and the values of the key field.
ApiKeys == {"k1", "k2"}
EnteredKeys == ApiKeys \cup {""}

\* The entry of the service selectbox (line 914) the sessions choose: the
\* one with two fields.
UIServices == {"AI tool usage"}

\* str.strip() on a text whose white space is the token " ".
RECURSIVE StripLeft(_)
StripLeft(text) ==
    IF text # <<>> /\ Head(text) = " " THEN StripLeft(Tail(text)) ELSE text

RECURSIVE StripRight(_)
StripRight(text) ==
    IF text # <<>> /\ text[Len(text)] = " "
    THEN StripRight(SubSeq(text, 1, Len(text) - 1))
    ELSE text

Strip(text) == StripRight(StripLeft(text))

\* What the user left in the fields of a service: each field holds white
\* space only, or a text with white space around it.
RawFields(s) ==
    {[k \in DOMAIN UIInput(s) |->
         IF k \in blank THEN <<" ">> ELSE <<" ">> \o UIInput(s)[k] \o <<" ">>]
       : blank \in SUBSET DOMAIN UIInput(s)}

\* Mutant of AllFilled: one non-blank field is enough.
AllFilled_Any(fields) == \E k \in DOMAIN fields : Strip(fields[k]) # <<>>

\* The test in front of the call: every field is non-empty after strip()
\* (lines 1002, 1058, 1119, 1181, 1229).
AllFilled(fields) == \A k \in DOMAIN fields : Strip(fields[k]) # <<>>

\* Mutant of NeedsNewTeam: a team is built on every script run.
NeedsNewTeam_Always(team, key) == TRUE

\* Line 835: current_team is None or current_team.api_key != api_key.
NeedsNewTeam(team, key) == ~team.exists \/ team.api_key # key

\* The script got past the key check without building a team, so the page
\* with its buttons is on the screen.
Rendered(u) ==
    /\ api_key[u] # ""
    /\ ~NeedsNewTeam(session_state[u].current_team, api_key[u])

\* The action tags of the three stage records (lines 104, 116, 128).
ActionTags == <<"initial_explanation", "practical_enhancement", "finalization">>

\* The workflow_log after n stage records.
RECURSIVE LogWithSteps(_, _)
LogWithSteps(s, n) ==
    IF n = 0 THEN NewWorkflowLog(s)
    ELSE AppendStep(LogWithSteps(s, n - 1), ExpertOrder[n], ActionTags[n])

\* Where the calls of get_ai_education the sessions make are cut short by an
\* exception of a Streamlit call: nowhere, or after the first stage record.
RunSites == {"none", "present1"}

\* The number of stages, hence of model calls, of a run cut short at site.
StagesRun(site) == IF site = "none" THEN 3 ELSE RecordsBefore(site)

\* self.workflow_logs after one call of get_ai_education(s, ...) that is cut
\* short at site; handled tells whether the except branch ran to its end
\* (lines 142-145) or st.error raised in it (line 141).
LogsAfterRun(logs, s, site, handled, message) ==
    IF site = "none" THEN Append(logs, MarkCompleted(LogWithSteps(s, 3)))
    ELSE IF handled
         THEN Append(logs, MarkError(LogWithSteps(s, RecordsBefore(site)), message))
         ELSE logs

\* The key the team's model sends with the calls of a run: the one it holds,
\* or the process-wide one when it holds none yet.
ClientKey(team) == IF team.client = "" THEN genai_api_key ELSE team.client

\* Lines 824-839 with the value k in the key field.  AIEducationTeam(k)
\* stores k process-wide with genai.configure (line 64) and creates the model
\* without a key (line 65); the source does not say whether the model takes
\* the configured key when it is created or when it first makes a call, so
\* both are possible.  The construction may raise, before or after line 64.
EnterKey(u, k) ==
    LET team == session_state[u].current_team
        run(c, f) == [ui_history EXCEPT !.session = u, !.constructed = c,
                        !.construct_failed = f, !.blank_field = FALSE]
    IN
    /\ api_key' = [api_key EXCEPT ![u] = k]
    /\ IF k = ""
       THEN /\ ui_history' = run(FALSE, FALSE)
            /\ UNCHANGED <<genai_api_key, session_state>>
       ELSE IF NeedsNewTeam(team, k)
       THEN \/ /\ genai_api_key' = k
               /\ \E c \in {"", k} :
                     session_state' = [session_state EXCEPT ![u].current_team =
                        [exists |-> TRUE, api_key |-> k, workflow_logs |-> <<>>,
                         client |-> c]]
               /\ ui_history' = run(TRUE, FALSE)
            \/ /\ genai_api_key' \in {genai_api_key, k}
               /\ ui_history' = run(TRUE, TRUE)
               /\ UNCHANGED session_state
       ELSE /\ ui_history' = run(FALSE, FALSE)
            /\ UNCHANGED <<genai_api_key, session_state>>
    /\ UNCHANGED <<ui_runs, pipeline_vars, built>>

\* Lines 851-853: the reset button, shown when the session has logs, and the
\* script run st.rerun() starts, which passes the key check with the team it
\* has.
ResetLogs(u) ==
    /\ Rendered(u)
    /\ session_state[u].workflow_logs # <<>>
    /\ session_state' = [session_state EXCEPT ![u].workflow_logs = <<>>]
    /\ ui_history' = [ui_history EXCEPT !.session = u,
                         !.constructed = FALSE, !.construct_failed = FALSE,
                         !.blank_field = FALSE, !.runs[u] = 0, !.completed[u] = 0]
    /\ UNCHANGED <<genai_api_key, api_key, ui_runs, pipeline_vars, built>>

\* Lines 1001-1023 and their likes: the generate button of the selected
\* service.  With a blank field the script warns; otherwise it calls
\* get_ai_education on the session's team and extends the session's logs with
\* the team's workflow_logs (line 1013), unless the call raised.
Generate(u) ==
    LET team == session_state[u].current_team IN
    /\ Rendered(u)
    /\ ui_runs < MaxUIRuns
    /\ \E s \in UIServices : \E fields \in RawFields(s) :
          IF ~AllFilled(fields)
          THEN /\ ui_history' = [ui_history EXCEPT !.session = u,
                                    !.constructed = FALSE, !.construct_failed = FALSE,
                                    !.blank_field = \E k \in DOMAIN fields :
                                                       fields[k] \in {<<>>, <<" ">>}]
               /\ UNCHANGED <<session_state, ui_runs>>
          ELSE \E site \in RunSites : \E handled \in BOOLEAN :
               \E m \in PipelineMessages :
               LET logs == LogsAfterRun(team.workflow_logs, s, site, handled, m)
                   calls == StagesRun(site)
                   raised == site # "none" /\ ~handled
               IN
               /\ site = "none" => handled
               /\ session_state' = [session_state EXCEPT ![u] =
                     [workflow_logs |-> IF raised THEN @.workflow_logs
                                        ELSE @.workflow_logs \o logs,
                      current_team |-> [team EXCEPT !.workflow_logs = logs,
                                           !.client = IF calls > 0 THEN ClientKey(team)
                                                      ELSE @]]]
               /\ ui_history' = [ui_history EXCEPT !.session = u,
                                    !.constructed = FALSE, !.construct_failed = FALSE,
                                    !.blank_field = \E k \in DOMAIN fields :
                                                       fields[k] \in {<<>>, <<" ">>},
                                    !.runs[u] = @ + 1,
                                    !.completed[u] = IF site = "none" THEN @ + 1 ELSE @]
               /\ ui_runs' = ui_runs + 1
    /\ UNCHANGED <<genai_api_key, api_key, pipeline_vars, built>>

NextUI ==
    \E u \in Sessions :
       \/ \E k \in EnteredKeys : EnterKey(u, k)
       \/ ResetLogs(u)
       \/ Generate(u)

SpecUI == Init /\ [][NextUI]_vars

\* A script run of session u took place in the step.
ScriptRun(u) == ui_history'.session = u

\* The sidebar's numbers (lines 846-847).
total_requests(u) == Len(session_state[u].workflow_logs)

successful_requests(u) ==
    Cardinality({i \in 1..Len(session_state[u].workflow_logs) :
                    session_state[u].workflow_logs[i].status = "completed"})

-----------------------------------------------------------------------------
\* C15: runs are independent and share no mutable state but the log store:
\* the key a team's model sends with its calls is the team's own api_key,
\* whatever other teams were constructed or run in the process, and a script
\* run of one session leaves the team and the logs of every other session as
\* they were.
C15_RunsIndependent ==
    /\ [](\A u \in Sessions :
             LET team == session_state[u].current_team IN
             (team.exists /\ team.client # "") => team.client = team.api_key)
    /\ [][\A u \in Sessions : ScriptRun(u) =>
             \A v \in Sessions \ {u} : session_state'[v] = session_state[v]]_vars

\* C16 as stated: in every script run a new AIEducationTeam is constructed
\* exactly when no team exists or the entered API key differs from the
\* current team's key.
C16_NewTeamIffNoTeamOrKeyDiffers ==
    [][\A u \in Sessions : ScriptRun(u) =>
          LET team == session_state[u].current_team IN
          ui_history'.constructed <=> (~team.exists \/ team.api_key # api_key'[u])]_vars

\* C16: in every script run AIEducationTeam(api_key) is called exactly when
\* the entered API key is not empty and no team exists or the key differs from
\* the current team's api_key; a call that returns stores a new team with
\* that key and an empty log list; in every other script run, and when the
\* call raises, the session keeps the team it had, with its accumulated logs.
C16_NewTeamIffKeyEnteredAndNoTeamOrKeyDiffers ==
    [][\A u \in Sessions : ScriptRun(u) =>
          LET team == session_state[u].current_team
              kept == session_state'[u].current_team
              k == api_key'[u]
          IN
          /\ ui_history'.constructed <=>
                (k # "" /\ (~team.exists \/ team.api_key # k))
          /\ (ui_history'.constructed /\ ~ui_history'.construct_failed) =>
                /\ kept.exists
                /\ kept.api_key = k
                /\ kept.workflow_logs = <<>>
          /\ (~ui_history'.constructed \/ ui_history'.construct_failed) =>
                /\ kept.exists = team.exists
                /\ kept.api_key = team.api_key
                /\ Len(kept.workflow_logs) >= Len(team.workflow_logs)
                /\ SubSeq(kept.workflow_logs, 1, Len(team.workflow_logs))
                      = team.workflow_logs]_vars

\* A script run reused the session's team, which holds the logs of two runs.
C16_Witness ==
    \E u \in Sessions :
       /\ ui_history.session = u
       /\ ~ui_history.constructed
       /\ session_state[u].current_team.exists
       /\ session_state[u].current_team.api_key = api_key[u]
       /\ Len(session_state[u].current_team.workflow_logs) = 2

\* C18: the session's workflow_logs hold exactly one entry for each run made
\* since the last reset, so the sidebar's total-request count is the number
\* of those runs and its successful-request count is the number of those
\* runs that ended with status 'completed'.
C18_SessionLogsOnePerRun ==
    \A u \in Sessions :
       /\ total_requests(u) = ui_history.runs[u]
       /\ successful_requests(u) = ui_history.completed[u]

\* C21: main() calls get_ai_education only in a script run in which the key
\* field is not empty, the session holds a team with that key (none had to be
\* built in the run) and no required field of the service is empty after
\* trimming; in a script run with an empty key field, with a team
\* construction that failed, or with a blank required field, no run takes
\* place: the team, with its model's key and its logs, and the session's
\* logs stay as they were.
C21_RunOnlyWithKeyedTeamAndFilledFields ==
    [][\A u \in Sessions : ScriptRun(u) =>
          LET team == session_state[u].current_team IN
          /\ ui_runs' # ui_runs =>
                /\ api_key'[u] # ""
                /\ team.exists
                /\ team.api_key = api_key'[u]
                /\ session_state'[u].current_team.api_key = api_key'[u]
                /\ ~ui_history'.construct_failed
                /\ ~ui_history'.blank_field
          /\ (\/ api_key'[u] = ""
              \/ ui_history'.construct_failed
              \/ ui_history'.blank_field) =>
                /\ ui_runs' = ui_runs
                /\ session_state'[u] = session_state[u]]_vars

\* After one run, the generate button was clicked with a blank field: the
\* session still has the one log of the run.
C21_Witness ==
    \E u \in Sessions :
       /\ ui_history.session = u
       /\ ui_history.blank_field
       /\ ui_history.runs[u] = 1
       /\ Len(session_state[u].workflow_logs) = 1
       /\ session_state[u].current_team.api_key = api_key[u]

====
